---- MODULE Spec2Model ----
(***************************************************************************)
(* Model of the time-series store: the mmap-backed Columns                 *)
(* (column_storage.cpp), the B+ tree Index (bplus_tree.hpp) and the Series *)
(* with its background Writer (timeseries_db.cpp).                         *)
(***************************************************************************)
EXTENDS Integers, Sequences, FiniteSets, TLC

(***************************************************************************)
(* Program constants.                                                      *)
(***************************************************************************)
ORDER == 64

BATCH_SIZE == 1000

CHUNK_SIZE == 4096

HEADER_SIZE == 8

ELEMENT_SIZE == 8

(***************************************************************************)
(* Bounds of the model.                                                    *)
(***************************************************************************)
\* timestamps are drawn from 0..MaxTs; MaxTs stands for the largest uint64
MaxTs == 1

\* ticks the clients may append to a Series opened in an empty directory (an
\* append_batch of no ticks counts as one)
MaxTicks == 2

\* ticks the clients may append on top of a pre-populated series
MaxTicksIndexed == 1

\* how many times the Series may be destroyed and opened again
MaxReopens == 1

\* ticks the clients may append to a series whose columns are full
MaxTicksFull == 1

\* entries given to the Index in one run of inserts, and the most it is given
TreeRun == 32

MaxTreeEntries == 3360

\* entries of an Index loaded in key order before inserts in any order are made,
\* and the most entries those inserts add
LoadedEntries == 2112

MaxUnorderedEntries == 128

\* calls made on a Column used on its own
MaxColumnOps == 3

\* calls each of the threads that share a Column makes
MaxThreadCalls == 2

\* largest count found in the header of a file left by an earlier run
MaxHeader == 3

\* ticks appended while two threads call sync()
MaxTicksSyncers == 1

\* ticks appended when no reader runs and the Series is not destroyed
MaxTicksProducers == 3

(***************************************************************************)
(* Helpers.                                                                *)
(***************************************************************************)
Min(S) == CHOOSE x \in S : \A y \in S : x <= y

MinOf(a, b) == IF a <= b THEN a ELSE b

InsertAt(s, idx, x) == SubSeq(s, 1, idx) \o <<x>> \o SubSeq(s, idx + 1, Len(s))

Range(s) == {s[i] : i \in 1..Len(s)}

\* std::lower_bound on a sorted vector: 0-based index of the first element >= key
lower_bound(keys, key) ==
    LET S == {i \in 1..Len(keys) : keys[i] >= key}
    IN  IF S = {} THEN Len(keys) ELSE Min(S) - 1

\* std::upper_bound on a sorted vector: 0-based index of the first element > key
upper_bound(keys, key) ==
    LET S == {i \in 1..Len(keys) : keys[i] > key}
    IN  IF S = {} THEN Len(keys) ELSE Min(S) - 1

(***************************************************************************)
(* B+ tree (bplus_tree.hpp).  Nodes live in a heap, tree.nodes, addressed  *)
(* by their position; 0 is nullptr.  A destroyed node keeps its place with *)
(* live = FALSE.                                                           *)
(***************************************************************************)
LeafNode == [live |-> TRUE, is_leaf |-> TRUE, keys |-> <<>>, values |-> <<>>,
             children |-> <<>>, next |-> 0]

InternalNode == [live |-> TRUE, is_leaf |-> FALSE, keys |-> <<>>, values |-> <<>>,
                 children |-> <<>>, next |-> 0]

\* BPlusTree(): the root is an empty leaf
BPlusTree == [root |-> 1, nodes |-> <<LeafNode>>]

\* mutant: the new key is put behind the keys of the leaf
LeafInsertPosBack(keys, key) == Len(keys)

\* position in a leaf where insert puts a new key
LeafInsertPos(keys, key) == lower_bound(keys, key)

\* child of an internal node that an insert or a lookup of key descends into
ChildIndex(keys, key) == upper_bound(keys, key)

\* a node is split when it holds this many keys
NeedsSplit(keys) == Len(keys) >= ORDER

\* split_leaf: the root is a leaf
split_leaf(t, leafId) ==
    LET leaf    == t.nodes[leafId]
        n       == Len(t.nodes)
        rootId  == n + 1
        newId   == n + 2
        copyId  == n + 3
        mid     == Len(leaf.keys) \div 2
        newLeaf == [LeafNode EXCEPT
                       !.keys   = SubSeq(leaf.keys, mid + 1, Len(leaf.keys)),
                       !.values = SubSeq(leaf.values, mid + 1, Len(leaf.values)),
                       !.next   = leaf.next]
        oldLeaf == [leaf EXCEPT
                       !.keys   = SubSeq(leaf.keys, 1, mid),
                       !.values = SubSeq(leaf.values, 1, mid),
                       !.next   = newId]
        newRoot == [InternalNode EXCEPT
                       !.keys     = <<newLeaf.keys[1]>>,
                       !.children = <<copyId, newId>>]
    IN  [root  |-> rootId,
         nodes |-> [t.nodes EXCEPT ![leafId] = [oldLeaf EXCEPT !.live = FALSE]]
                   \o <<newRoot, newLeaf, oldLeaf>>]

\* split_internal: only the root is split; any other node is left as it is
split_internal(t, nodeId) ==
    IF nodeId = t.root
    THEN LET node    == t.nodes[nodeId]
             n       == Len(t.nodes)
             rootId  == n + 1
             newId   == n + 2
             movedId == n + 3
             mid     == Len(node.keys) \div 2
             middle_key == node.keys[mid + 1]
             newInternal == [InternalNode EXCEPT
                 !.keys     = SubSeq(node.keys, mid + 2, Len(node.keys)),
                 !.children = SubSeq(node.children, mid + 2, Len(node.children))]
             oldNode == [node EXCEPT
                 !.keys     = SubSeq(node.keys, 1, mid),
                 !.children = SubSeq(node.children, 1, mid + 1)]
             newRoot == [InternalNode EXCEPT
                 !.keys     = <<middle_key>>,
                 !.children = <<movedId, newId>>]
         IN  [root  |-> rootId,
              nodes |-> [t.nodes EXCEPT ![nodeId] = [oldNode EXCEPT !.live = FALSE]]
                        \o <<newRoot, newInternal, oldNode>>]
    ELSE t

\* mutant: the new leaf is not linked to the leaf that followed the split one
split_leaf_with_parent_unlinked(t, leafId, parentId, child_index) ==
    LET leaf    == t.nodes[leafId]
        parent  == t.nodes[parentId]
        newId   == Len(t.nodes) + 1
        mid     == Len(leaf.keys) \div 2
        newLeaf == [LeafNode EXCEPT
                       !.keys   = SubSeq(leaf.keys, mid + 1, Len(leaf.keys)),
                       !.values = SubSeq(leaf.values, mid + 1, Len(leaf.values)),
                       !.next   = 0]
        oldLeaf == [leaf EXCEPT
                       !.keys   = SubSeq(leaf.keys, 1, mid),
                       !.values = SubSeq(leaf.values, 1, mid),
                       !.next   = newId]
        newParent == [parent EXCEPT
                       !.keys     = InsertAt(parent.keys, child_index, newLeaf.keys[1]),
                       !.children = InsertAt(parent.children, child_index + 1, newId)]
        t1 == [t EXCEPT !.nodes = [t.nodes EXCEPT ![leafId] = oldLeaf,
                                                  ![parentId] = newParent]
                                  \o <<newLeaf>>]
    IN  IF NeedsSplit(newParent.keys) THEN split_internal(t1, parentId) ELSE t1

\* split_leaf_with_parent: child_index is the 0-based place of the leaf in parent
split_leaf_with_parent(t, leafId, parentId, child_index) ==
    LET leaf    == t.nodes[leafId]
        parent  == t.nodes[parentId]
        newId   == Len(t.nodes) + 1
        mid     == Len(leaf.keys) \div 2
        newLeaf == [LeafNode EXCEPT
                       !.keys   = SubSeq(leaf.keys, mid + 1, Len(leaf.keys)),
                       !.values = SubSeq(leaf.values, mid + 1, Len(leaf.values)),
                       !.next   = leaf.next]
        oldLeaf == [leaf EXCEPT
                       !.keys   = SubSeq(leaf.keys, 1, mid),
                       !.values = SubSeq(leaf.values, 1, mid),
                       !.next   = newId]
        newParent == [parent EXCEPT
                       !.keys     = InsertAt(parent.keys, child_index, newLeaf.keys[1]),
                       !.children = InsertAt(parent.children, child_index + 1, newId)]
        t1 == [t EXCEPT !.nodes = [t.nodes EXCEPT ![leafId] = oldLeaf,
                                                  ![parentId] = newParent]
                                  \o <<newLeaf>>]
    IN  IF NeedsSplit(newParent.keys) THEN split_internal(t1, parentId) ELSE t1

\* the leaf with key and value inserted at the place insert chooses
LeafWith(leaf, key, value) ==
    LET idx == LeafInsertPos(leaf.keys, key)
    IN  [leaf EXCEPT !.keys   = InsertAt(leaf.keys, idx, key),
                     !.values = InsertAt(leaf.values, idx, value)]

RECURSIVE insert_internal(_, _, _, _)
insert_internal(t, key, value, nodeId) ==
    LET node    == t.nodes[nodeId]
        index   == ChildIndex(node.keys, key)
        childId == node.children[index + 1]
        child   == t.nodes[childId]
    IN  IF child.is_leaf
        THEN LET leaf == LeafWith(child, key, value)
                 t1   == [t EXCEPT !.nodes[childId] = leaf]
             IN  IF NeedsSplit(leaf.keys)
                 THEN split_leaf_with_parent(t1, childId, nodeId, index)
                 ELSE t1
        ELSE insert_internal(t, key, value, childId)

\* BPlusTree::insert
insert(t, key, value) ==
    IF t.nodes[t.root].is_leaf
    THEN LET leaf == LeafWith(t.nodes[t.root], key, value)
             t1   == [t EXCEPT !.nodes[t.root] = leaf]
         IN  IF NeedsSplit(leaf.keys) THEN split_leaf(t1, t.root) ELSE t1
    ELSE insert_internal(t, key, value, t.root)

\* find_leaf: the leaf that should contain key
RECURSIVE find_leaf_from(_, _, _)
find_leaf_from(t, key, nodeId) ==
    LET node == t.nodes[nodeId]
    IN  IF node.is_leaf THEN nodeId
        ELSE find_leaf_from(t, key, node.children[ChildIndex(node.keys, key) + 1])

find_leaf(t, key) == find_leaf_from(t, key, t.root)

\* the for loop of range_query over one leaf: the pairs it emits, and whether it
\* returned (a key > end was met, which ends the loop at that key)
scan_keys(leaf, start, end) ==
    LET past  == {i \in 1..Len(leaf.keys) : leaf.keys[i] > end}
        last  == IF past = {} THEN Len(leaf.keys) ELSE Min(past)
        pairs == [i \in 1..last |-> <<leaf.keys[i], leaf.values[i]>>]
    IN  [result   |-> SelectSeq(pairs, LAMBDA e : e[1] >= start /\ e[1] <= end),
         returned |-> past # {}]

\* the while loop of range_query over the leaf chain, from leaf leafId on
RECURSIVE scan_leaves(_, _, _, _)
scan_leaves(t, leafId, start, end) ==
    IF leafId = 0 THEN <<>>
    ELSE LET r == scan_keys(t.nodes[leafId], start, end)
         IN  IF r.returned THEN r.result
             ELSE r.result \o scan_leaves(t, t.nodes[leafId].next, start, end)

\* BPlusTree::range_query: the (key, value) pairs it returns, in order
range_query(t, start, end) == scan_leaves(t, find_leaf(t, start), start, end)

\* the leftmost leaf below node nodeId
RECURSIVE first_leaf_from(_, _)
first_leaf_from(t, nodeId) ==
    IF t.nodes[nodeId].is_leaf THEN nodeId
    ELSE first_leaf_from(t, t.nodes[nodeId].children[1])

\* the (key, value) pairs of the leaf chain from leaf leafId on, in chain order
RECURSIVE chain_pairs(_, _)
chain_pairs(t, leafId) ==
    IF leafId = 0 THEN <<>>
    ELSE LET leaf == t.nodes[leafId]
         IN  [i \in 1..Len(leaf.keys) |-> <<leaf.keys[i], leaf.values[i]>>]
                 \o chain_pairs(t, leaf.next)

\* every pair the tree holds, as a walk of all its leaves finds them
IndexPairs(t) == chain_pairs(t, first_leaf_from(t, t.root))

\* every (key, value) pair held by a live leaf of the tree
IndexEntries(t) ==
    UNION {{<<t.nodes[n].keys[i], t.nodes[n].values[i]>> : i \in 1..Len(t.nodes[n].keys)}
           : n \in {m \in 1..Len(t.nodes) : t.nodes[m].live /\ t.nodes[m].is_leaf}}

(***************************************************************************)
(* Column (column_storage.cpp).  A column is its file (file_size, the      *)
(* header holding the persisted count, and data, the slots written so far) *)
(* and the in-memory object (count, capacity, mapped).                     *)
(***************************************************************************)
NewFile == [file_size |-> 0, header |-> 0, data |-> <<>>]

\* write_header
write_header(col) == IF col.mapped THEN [col EXCEPT !.header = col.count] ELSE col

\* read_header
read_header(col) == IF col.mapped THEN [col EXCEPT !.count = col.header] ELSE col

\* ColumnStorage::ColumnStorage on a file that is new (size 0) or exists
ColumnStorage(file) ==
    IF file.file_size = 0
    THEN LET cap0     == CHUNK_SIZE \div ELEMENT_SIZE
             capacity == IF cap0 = 0 THEN 1 ELSE cap0
         IN  write_header([count |-> 0, capacity |-> capacity, mapped |-> TRUE,
                           file_size |-> HEADER_SIZE + capacity * ELEMENT_SIZE,
                           header |-> file.header, data |-> file.data])
    ELSE IF file.file_size < HEADER_SIZE
    THEN \* "Invalid file format: file too small for header": no Column is made
         [count |-> 0, capacity |-> 0, mapped |-> FALSE, file_size |-> file.file_size,
          header |-> file.header, data |-> file.data]
    ELSE read_header([count |-> 0,
                      capacity |-> (file.file_size - HEADER_SIZE) \div ELEMENT_SIZE,
                      mapped |-> TRUE, file_size |-> file.file_size,
                      header |-> file.header, data |-> file.data])

\* ColumnStorage::~ColumnStorage: the header is written, the file unmapped and closed
CloseColumn(col) == [write_header(col) EXCEPT !.mapped = FALSE, !.count = 0, !.capacity = 0]

\* the file a closed column leaves behind
FileOf(col) == [file_size |-> col.file_size, header |-> col.header, data |-> col.data]

\* memcpy of one element into slot pos (0-based) of the mapping
WriteSlot(data, pos, v) ==
    IF pos < Len(data) THEN [data EXCEPT ![pos + 1] = v]
    ELSE data \o [i \in 1..(pos - Len(data)) |-> 0] \o <<v>>

\* memcpy of the elements vs into the slots from pos on
WriteSlots(data, pos, vs) ==
    LET last == IF pos + Len(vs) > Len(data) THEN pos + Len(vs) ELSE Len(data)
    IN  IF vs = <<>> THEN data
        ELSE [i \in 1..last |->
                 IF i > pos /\ i <= pos + Len(vs) THEN vs[i - pos]
                 ELSE IF i <= Len(data) THEN data[i] ELSE 0]

\* mutant: append doubles the capacity
AppendGrowDoubles(capacity) == capacity * 2

\* the capacity append grows to when the column is full
AppendGrow(capacity) ==
    LET new_capacity == capacity + (CHUNK_SIZE \div ELEMENT_SIZE)
    IN  IF new_capacity <= capacity THEN capacity * 2 ELSE new_capacity

\* mutant: the capacity is raised by one chunk, whatever is needed
BatchGrowOnce(capacity, new_capacity, needed) == capacity + (CHUNK_SIZE \div ELEMENT_SIZE)

\* the capacity append_batch grows to, so that needed slots fit
RECURSIVE BatchGrow(_, _, _)
BatchGrow(capacity, new_capacity, needed) ==
    IF new_capacity >= needed THEN new_capacity
    ELSE LET c1 == new_capacity + (CHUNK_SIZE \div ELEMENT_SIZE)
         IN  BatchGrow(capacity, IF c1 <= capacity THEN capacity * 2 ELSE c1, needed)

\* append up to count.fetch_add(1): the file grown if it is full, the count raised
AppendReserve(col) ==
    LET grown == IF col.count >= col.capacity
                 THEN [col EXCEPT !.capacity  = AppendGrow(col.capacity),
                                  !.file_size = HEADER_SIZE
                                                + AppendGrow(col.capacity) * ELEMENT_SIZE]
                 ELSE col
    IN  [grown EXCEPT !.count = grown.count + 1]

\* ColumnStorage::append
ColAppend(col, v) ==
    LET pos == col.count
    IN  [AppendReserve(col) EXCEPT !.data = WriteSlot(col.data, pos, v)]

\* append_batch up to count.fetch_add(batch_count)
BatchReserve(col, batch_count) ==
    LET needed == col.count + batch_count
        grown  == IF needed > col.capacity
                  THEN [col EXCEPT
                          !.capacity  = BatchGrow(col.capacity, col.capacity, needed),
                          !.file_size = HEADER_SIZE
                              + BatchGrow(col.capacity, col.capacity, needed)
                                * ELEMENT_SIZE]
                  ELSE col
    IN  [grown EXCEPT !.count = grown.count + batch_count]

\* ColumnStorage::append_batch
ColAppendBatch(col, vs) ==
    IF Len(vs) = 0 THEN col
    ELSE LET start_pos == col.count
         IN  [BatchReserve(col, Len(vs)) EXCEPT !.data = WriteSlots(col.data, start_pos, vs)]

\* mutant: the header is left as it was
flush_header_skipped(col) == col

\* ColumnStorage::flush_header
flush_header(col) == write_header(col)

\* ColumnStorage::read: the element, or the out_of_range exception
ColRead(col, index) ==
    IF index >= col.count THEN [threw |-> TRUE, value |-> 0]
    ELSE [threw |-> FALSE, value |-> col.data[index + 1]]

(***************************************************************************)
(* Series (timeseries_db.cpp).                                             *)
(***************************************************************************)
Producers == {1, 2}

Syncers == {"s1"}

\* the threads that call sync() at the same time
SyncCallers == {"s1", "s2"}

Readers == {"r1"}

Keys == 0..MaxTs

\* the threads that append to one Column at the same time
ColumnThreads == {"a1", "a2"}

\* a tick; the price names the tick, the volume is derived from it
Tick(ts, id) == [timestamp |-> ts, price |-> id, volume |-> id + id]

VARIABLES
    timestamps, prices, volumes,   \* the three Columns
    time_index,                    \* the B+ tree
    write_queue, pending_writes,   \* std::queue<Tick>, atomic<size_t>
    sync_requested, stop_writer,   \* atomic<bool>
    write_mutex,                   \* "free" or the thread that holds it
    query_mutex,                   \* [writer: held exclusively, readers: shared holders]
    wpc, batch, start_index,       \* the Writer thread: its place, its locals
    ppc, pticks,                   \* producers: place, the ticks of the call
    spc, ssnap,                    \* sync() callers: place, ticks appended before the call
    rpc, rq, rres,                 \* readers: place, the query, its result
    counter,                       \* the thread calling get_count(): its place, the
                                   \* three counts it loaded, the outcome of the call
    dpc, reopens, preClose,        \* lifecycle of the Series object
    returned, synced,              \* history: ticks whose append returned; those a
                                   \* later sync() has returned for
    calls,                         \* history: each call's ticks and the ticks whose
                                   \* call had returned when it began
    nextTick, ticksLeft,           \* the next tick's name; ticks that may still be appended
    appender,                      \* the thread appending to a Column used on its own:
                                   \* its place, its locals, the calls it has made
    inserted,                      \* history of an Index used on its own: the keys
                                   \* given to insert, in the order of the inserts
    appenders,                     \* the threads appending together to one Column:
                                   \* place, call, locals of each
    remap_mutex                    \* the static remap_mutex of append and that of
                                   \* append_batch: "free" or the thread that holds it

colVars   == <<timestamps, prices, volumes>>
queueVars == <<write_queue, pending_writes>>
flagVars  == <<sync_requested, stop_writer>>
lockVars  == <<write_mutex, query_mutex>>
writerVars == <<wpc, batch, start_index>>
prodVars  == <<ppc, pticks>>
syncVars  == <<spc, ssnap>>
readVars  == <<rpc, rq, rres, counter>>
lifeVars  == <<dpc, reopens, preClose>>
threadVars == <<appenders, remap_mutex>>
histVars  == <<returned, synced, calls, nextTick, ticksLeft, appender, inserted, threadVars>>

vars == <<colVars, time_index, queueVars, flagVars, lockVars, writerVars, prodVars,
          syncVars, readVars, lifeVars, histVars>>

\* time_index.insert(keys[j], first_value + j - 1) for j = lo..hi, in this order
RECURSIVE insert_all(_, _, _, _, _)
insert_all(t, keys, first_value, lo, hi) ==
    IF lo > hi THEN t
    ELSE IF lo = hi THEN insert(t, keys[lo], first_value + lo - 1)
    ELSE LET mid  == (lo + hi) \div 2
             left == insert_all(t, keys, first_value, lo, mid)
         IN  IF left.root > 0 THEN insert_all(left, keys, first_value, mid + 1, hi)
             ELSE left

\* mutant: the rows are visited last to first
RebuildOrderReversed(count) == [i \in 1..count |-> count - i]

\* the order in which rebuild_index visits the rows
RebuildOrder(count) == [i \in 1..count |-> i - 1]

\* TimeSeriesDB::rebuild_index on a fresh tree
RECURSIVE rebuild_from(_, _, _, _, _)
rebuild_from(t, tsCol, order, lo, hi) ==
    IF lo > hi THEN t
    ELSE IF lo = hi
         THEN insert(t, ColRead(tsCol, order[lo]).value, order[lo])
    ELSE LET mid  == (lo + hi) \div 2
             left == rebuild_from(t, tsCol, order, lo, mid)
         IN  IF left.root > 0 THEN rebuild_from(left, tsCol, order, mid + 1, hi)
             ELSE left

rebuild_index(tsCol) ==
    rebuild_from(BPlusTree, tsCol, RebuildOrder(tsCol.count), 1, tsCol.count)

\* TimeSeriesDB::get_count when the three loads see these columns
get_count(ts, pr, vol) ==
    IF ts.count # pr.count \/ pr.count # vol.count
    THEN MinOf(ts.count, MinOf(pr.count, vol.count))
    ELSE ts.count

\* mutant: the columns are read at the position in the result, not at the row index
read_rows_by_position(results, pr, vol) ==
    LET price(i)  == ColRead(pr, i - 1)
        volume(i) == ColRead(vol, i - 1)
    IN  IF \E i \in 1..Len(results) : price(i).threw \/ volume(i).threw
        THEN [threw |-> TRUE, ticks |-> <<>>]
        ELSE [threw |-> FALSE,
              ticks |-> [i \in 1..Len(results) |->
                            <<results[i][1], price(i).value, volume(i).value>>]]

\* the rows query_range builds from the pairs the index returned; a read that
\* throws ends the query with the exception
read_rows(results, pr, vol) ==
    LET price(i)  == ColRead(pr, results[i][2])
        volume(i) == ColRead(vol, results[i][2])
    IN  IF \E i \in 1..Len(results) : price(i).threw \/ volume(i).threw
        THEN [threw |-> TRUE, ticks |-> <<>>]
        ELSE [threw |-> FALSE,
              ticks |-> [i \in 1..Len(results) |->
                            <<results[i][1], price(i).value, volume(i).value>>]]

\* TimeSeriesDB::query_range, under the shared lock
query_range(idx, pr, vol, start, end) == read_rows(range_query(idx, start, end), pr, vol)

\* mutant: the tail starts one row early
LastStartOneEarly(count, n) == IF count > n THEN count - n - 1 ELSE 0

\* first row query_last returns
LastStart(count, n) == IF count > n THEN count - n ELSE 0

\* TimeSeriesDB::query_last, under the shared lock
query_last(ts, pr, vol, n) ==
    LET count     == ts.count
        start_idx == LastStart(count, n)
        rows      == [j \in 1..(count - start_idx) |->
                         <<ColRead(ts, start_idx + j - 1),
                           ColRead(pr, start_idx + j - 1),
                           ColRead(vol, start_idx + j - 1)>>]
    IN  IF \E j \in 1..Len(rows) : rows[j][1].threw \/ rows[j][2].threw \/ rows[j][3].threw
        THEN [threw |-> TRUE, ticks |-> <<>>]
        ELSE [threw |-> FALSE,
              ticks |-> [j \in 1..Len(rows) |->
                            <<rows[j][1].value, rows[j][2].value, rows[j][3].value>>]]

(***************************************************************************)
(* Initial states: the Series as its constructor leaves it.                *)
(***************************************************************************)
\* a column file an earlier run left behind, holding these values
PriorFile(values) ==
    [file_size |-> HEADER_SIZE + (CHUNK_SIZE \div ELEMENT_SIZE) * ELEMENT_SIZE,
     header    |-> Len(values),
     data      |-> values]

\* rows of an earlier run: the first low rows carry timestamp 0, the others MaxTs
PriorRows(n, low) == [i \in 1..n |-> Tick(IF i <= low THEN 0 ELSE MaxTs, i)]

\* the members other than the Columns and the Index as the constructor leaves
\* them, no call made yet; these threads may call sync(), budget ticks may be
\* appended
Started(syncers, firstTick, budget) ==
    /\ write_queue = <<>>
    /\ pending_writes = 0
    /\ sync_requested = FALSE
    /\ stop_writer = FALSE
    /\ write_mutex = "free"
    /\ query_mutex = [writer |-> FALSE, readers |-> {}]
    /\ wpc = "loop_test"
    /\ batch = <<>>
    /\ start_index = 0
    /\ ppc = [p \in Producers |-> "idle"]
    /\ pticks = [p \in Producers |-> <<>>]
    /\ spc = [s \in syncers |-> "idle"]
    /\ ssnap = [s \in syncers |-> {}]
    /\ rpc = [r \in Readers |-> "idle"]
    /\ rq = [r \in Readers |-> [kind |-> "none", a |-> 0, b |-> 0]]
    /\ rres = [r \in Readers |-> [threw |-> FALSE, ticks |-> <<>>]]
    /\ counter = [pc |-> "idle", ts |-> 0, pr |-> 0, vol |-> 0, warned |-> FALSE,
                  result |-> 0]
    /\ dpc = "alive"
    /\ reopens = 0
    /\ preClose = [taken |-> FALSE, pending |-> 0, count |-> 0, rows |-> <<>>]
    /\ returned = {}
    /\ synced = {}
    /\ calls = {}
    /\ nextTick = firstTick
    /\ ticksLeft = budget
    /\ appender = [pc |-> "idle", pos |-> 0, vs |-> <<>>, ops |-> 0]
    /\ inserted = <<>>
    /\ appenders = [t \in ColumnThreads |->
                        [pc |-> "idle", op |-> "none", n |-> 0, current_count |-> 0,
                         new_capacity |-> 0, pos |-> 0, calls |-> 0]]
    /\ remap_mutex = [append |-> "free", append_batch |-> "free"]

\* TimeSeriesDB::TimeSeriesDB on these three files
Constructed(tsFile, prFile, volFile, firstTick, budget) ==
    /\ timestamps = ColumnStorage(tsFile)
    /\ prices = ColumnStorage(prFile)
    /\ volumes = ColumnStorage(volFile)
    /\ time_index = rebuild_index(ColumnStorage(tsFile))
    /\ Started(Syncers, firstTick, budget)

\* a Series opened in an empty directory
Init == Constructed(NewFile, NewFile, NewFile, 1, MaxTicks)

\* a Series opened on the files of an earlier run
InitIndexed ==
    \E n \in {ORDER - 1, ORDER} : \E low \in {0, n \div 2, n} :
        LET rows == PriorRows(n, low)
        IN  Constructed(PriorFile([i \in 1..n |-> rows[i].timestamp]),
                        PriorFile([i \in 1..n |-> rows[i].price]),
                        PriorFile([i \in 1..n |-> rows[i].volume]),
                        n + 1, MaxTicksIndexed)

(***************************************************************************)
(* Producers: append and append_batch.                                     *)
(***************************************************************************)
\* what a call takes from the budget of the run
CallCost(ticks) == IF Len(ticks) = 0 THEN 1 ELSE Len(ticks)

\* pending_writes.fetch_add(ticks.size()).  The producer threads are
\* interchangeable: a call is made by the first thread that is free.
AppendCall(p, ticks) ==
    /\ dpc = "alive"
    /\ ppc[p] = "idle"
    /\ \A q \in Producers : q < p => ppc[q] # "idle"
    /\ CallCost(ticks) <= ticksLeft
    /\ pending_writes' = pending_writes + Len(ticks)
    /\ ppc' = [ppc EXCEPT ![p] = "push"]
    /\ pticks' = [pticks EXCEPT ![p] = ticks]
    /\ nextTick' = nextTick + Len(ticks)
    /\ ticksLeft' = ticksLeft - CallCost(ticks)
    /\ calls' = calls \cup {[ticks |-> ticks, before |-> returned]}
    /\ UNCHANGED <<colVars, time_index, write_queue, flagVars, lockVars, writerVars,
                   syncVars, readVars, lifeVars, returned, synced, appender,
                   inserted, threadVars>>

append(p) == \E t \in Keys : AppendCall(p, <<Tick(t, nextTick)>>)

append_batch(p) ==
    \E n \in 0..ticksLeft : \E tss \in [1..n -> Keys] :
        AppendCall(p, [i \in 1..n |-> Tick(tss[i], nextTick + i - 1)])

\* mutant: the ticks are put at the front of the queue
EnqueueFront(queue, ticks) == ticks \o queue

\* mutant: the mutex is taken for each tick, so that the last tick queued by
\* another call lands between the ticks of this one
EnqueuePerTick(queue, ticks) ==
    IF queue = <<>> \/ ticks = <<>> THEN queue \o ticks
    ELSE SubSeq(queue, 1, Len(queue) - 1) \o <<ticks[1]>> \o <<queue[Len(queue)]>>
             \o SubSeq(ticks, 2, Len(ticks))

\* write_queue.push(tick) for every tick of the call, the mutex held throughout
Enqueue(queue, ticks) == queue \o ticks

\* lock_guard(write_mutex); write_queue.push(tick) for every tick
Push(p) ==
    /\ ppc[p] = "push"
    /\ write_mutex = "free"
    /\ write_queue' = Enqueue(write_queue, pticks[p])
    /\ ppc' = [ppc EXCEPT ![p] = "notify"]
    /\ UNCHANGED <<colVars, time_index, pending_writes, flagVars, lockVars, writerVars,
                   pticks, syncVars, readVars, lifeVars, histVars>>

\* cv.notify_one(); the call returns
Notify(p) ==
    /\ ppc[p] = "notify"
    /\ wpc' = IF wpc = "cv_waiting" THEN "cv_woken" ELSE wpc
    /\ ppc' = [ppc EXCEPT ![p] = "idle"]
    /\ pticks' = [pticks EXCEPT ![p] = <<>>]
    /\ returned' = returned \cup Range(pticks[p])
    /\ UNCHANGED <<colVars, time_index, queueVars, flagVars, lockVars, batch, start_index,
                   syncVars, readVars, lifeVars, synced, calls, nextTick, ticksLeft, appender,
                   inserted, threadVars>>

(***************************************************************************)
(* The Writer thread: writer_loop.                                         *)
(***************************************************************************)
WriterStep(to) ==
    /\ wpc' = to
    /\ UNCHANGED <<batch, start_index>>

\* while (!stop_writer.load())
WLoopTest ==
    /\ wpc = "loop_test"
    /\ WriterStep(IF stop_writer THEN "exited" ELSE "lock_queue")
    /\ UNCHANGED <<colVars, time_index, queueVars, flagVars, lockVars, prodVars,
                   syncVars, readVars, lifeVars, histVars>>

\* unique_lock lock(write_mutex), on entry and when cv.wait wakes up
WLockQueue ==
    /\ wpc \in {"lock_queue", "cv_woken"}
    /\ write_mutex = "free"
    /\ write_mutex' = "writer"
    /\ WriterStep("wait_pred")
    /\ UNCHANGED <<colVars, time_index, queueVars, flagVars, query_mutex, prodVars,
                   syncVars, readVars, lifeVars, histVars>>

\* mutant: the Writer waits for stop_writer only
WriterPredStopOnly == stop_writer

\* the predicate of cv.wait
WriterPred == write_queue # <<>> \/ stop_writer

\* cv.wait evaluates its predicate, the mutex held
WWaitPred ==
    /\ wpc = "wait_pred"
    /\ WriterStep(IF WriterPred THEN "take" ELSE "cv_block")
    /\ UNCHANGED <<colVars, time_index, queueVars, flagVars, lockVars, prodVars,
                   syncVars, readVars, lifeVars, histVars>>

\* cv.wait releases the mutex and blocks
WBlock ==
    /\ wpc = "cv_block"
    /\ write_mutex' = "free"
    /\ WriterStep("cv_waiting")
    /\ UNCHANGED <<colVars, time_index, queueVars, flagVars, query_mutex, prodVars,
                   syncVars, readVars, lifeVars, histVars>>

\* a spurious wake-up of cv.wait
WSpurious ==
    /\ wpc = "cv_waiting"
    /\ WriterStep("cv_woken")
    /\ UNCHANGED <<colVars, time_index, queueVars, flagVars, lockVars, prodVars,
                   syncVars, readVars, lifeVars, histVars>>

\* whether the Writer leaves its loop after the wait
WriterBreaks == stop_writer /\ write_queue = <<>>

\* how many ticks the Writer takes from a queue of this length
BatchLen(queued) == MinOf(BATCH_SIZE, queued)

\* if (stop && empty) break; else move up to BATCH_SIZE ticks into batch; unlock
WTake ==
    /\ wpc = "take"
    /\ write_mutex' = "free"
    /\ IF WriterBreaks
       THEN /\ wpc' = "exited"
            /\ UNCHANGED <<batch, write_queue>>
       ELSE /\ wpc' = "have_batch"
            /\ batch' = SubSeq(write_queue, 1, BatchLen(Len(write_queue)))
            /\ write_queue' = SubSeq(write_queue, BatchLen(Len(write_queue)) + 1,
                                     Len(write_queue))
    /\ UNCHANGED <<colVars, time_index, pending_writes, flagVars, query_mutex, start_index,
                   prodVars, syncVars, readVars, lifeVars, histVars>>

\* mutant: the Writer's lock does not wait for the readers to leave
ExclusiveIgnoresReaders == ~query_mutex.writer

\* whether unique_lock(query_mutex) can be taken
ExclusiveFree == ~query_mutex.writer /\ query_mutex.readers = {}

\* mutant: the count is read after the batch has been appended
CapturedStartAfterAppend(tsCol, b) == tsCol.count + Len(b)

\* size_t start_index = timestamps.get_count(), before the batch b is appended
CapturedStart(tsCol, b) == tsCol.count

\* if (!batch.empty()) { unique_lock lock(query_mutex); start_index = get_count()
WLockSeries ==
    /\ wpc = "have_batch"
    /\ IF batch = <<>>
       THEN /\ WriterStep("loop_test")
            /\ UNCHANGED query_mutex
       ELSE /\ ExclusiveFree
            /\ query_mutex' = [query_mutex EXCEPT !.writer = TRUE]
            /\ start_index' = CapturedStart(timestamps, batch)
            /\ wpc' = "append_ts"
            /\ UNCHANGED batch
    /\ UNCHANGED <<colVars, time_index, queueVars, flagVars, write_mutex, prodVars,
                   syncVars, readVars, lifeVars, histVars>>

\* append for a batch of one, append_batch otherwise
ColumnWrite(col, vs) == IF Len(vs) = 1 THEN ColAppend(col, vs[1]) ELSE ColAppendBatch(col, vs)

WAppendTs ==
    /\ wpc = "append_ts"
    /\ timestamps' = ColumnWrite(timestamps, [i \in 1..Len(batch) |-> batch[i].timestamp])
    /\ WriterStep("append_prices")
    /\ UNCHANGED <<prices, volumes, time_index, queueVars, flagVars, lockVars, prodVars,
                   syncVars, readVars, lifeVars, histVars>>

WAppendPrices ==
    /\ wpc = "append_prices"
    /\ prices' = ColumnWrite(prices, [i \in 1..Len(batch) |-> batch[i].price])
    /\ WriterStep("append_volumes")
    /\ UNCHANGED <<timestamps, volumes, time_index, queueVars, flagVars, lockVars, prodVars,
                   syncVars, readVars, lifeVars, histVars>>

WAppendVolumes ==
    /\ wpc = "append_volumes"
    /\ volumes' = ColumnWrite(volumes, [i \in 1..Len(batch) |-> batch[i].volume])
    /\ WriterStep("flush")
    /\ UNCHANGED <<timestamps, prices, time_index, queueVars, flagVars, lockVars, prodVars,
                   syncVars, readVars, lifeVars, histVars>>

\* whether appending n elements makes the column grow its file (ftruncate, mmap)
NeedsGrow(col, n) ==
    IF n = 1 THEN col.count >= col.capacity ELSE col.count + n > col.capacity

\* the column the Writer is about to append to
ColumnAtStep ==
    IF wpc = "append_ts" THEN timestamps
    ELSE IF wpc = "append_prices" THEN prices ELSE volumes

\* ftruncate or mmap fails while a column grows: append throws std::system_error,
\* nothing in writer_loop catches it, the exception leaves the thread function
\* and std::terminate ends the process with all its threads
WAppendFails ==
    /\ wpc \in {"append_ts", "append_prices", "append_volumes"}
    /\ NeedsGrow(ColumnAtStep, Len(batch))
    /\ wpc' = "terminated"
    /\ dpc' = "aborted"
    /\ ppc' = [p \in Producers |-> "dead"]
    /\ spc' = [s \in DOMAIN spc |-> "dead"]
    /\ rpc' = [r \in Readers |-> "dead"]
    /\ counter' = [counter EXCEPT !.pc = "dead"]
    /\ UNCHANGED <<colVars, time_index, queueVars, flagVars, lockVars, batch, start_index,
                   pticks, ssnap, rq, rres, reopens, preClose, histVars>>

\* flush_header on the three columns
WFlush ==
    /\ wpc = "flush"
    /\ timestamps' = flush_header(timestamps)
    /\ prices' = flush_header(prices)
    /\ volumes' = flush_header(volumes)
    /\ WriterStep("index")
    /\ UNCHANGED <<time_index, queueVars, flagVars, lockVars, prodVars,
                   syncVars, readVars, lifeVars, histVars>>

\* time_index.insert(batch[i].timestamp, start_index + i) for every i
WIndex ==
    /\ wpc = "index"
    /\ time_index' = insert_all(time_index, [i \in 1..Len(batch) |-> batch[i].timestamp],
                                start_index, 1, Len(batch))
    /\ WriterStep("dec_pending")
    /\ UNCHANGED <<colVars, queueVars, flagVars, lockVars, prodVars,
                   syncVars, readVars, lifeVars, histVars>>

\* mutant: the Writer subtracts the size of a full batch
AcknowledgedFullBatch(b) == BATCH_SIZE

\* what the Writer subtracts from pending_writes for its batch
Acknowledged(b) == Len(b)

\* pending_writes.fetch_sub(batch.size())
WDecPending ==
    /\ wpc = "dec_pending"
    /\ pending_writes' = pending_writes - Acknowledged(batch)
    /\ WriterStep("check_sync")
    /\ UNCHANGED <<colVars, time_index, write_queue, flagVars, lockVars, prodVars,
                   syncVars, readVars, lifeVars, histVars>>

\* if (sync_requested.load() && ...
WCheckSync ==
    /\ wpc = "check_sync"
    /\ WriterStep(IF sync_requested THEN "check_pending" ELSE "unlock")
    /\ UNCHANGED <<colVars, time_index, queueVars, flagVars, lockVars, prodVars,
                   syncVars, readVars, lifeVars, histVars>>

\* ... && pending_writes.load() == 0) sync_cv.notify_all()
WNotifySync ==
    /\ wpc = "check_pending"
    /\ spc' = [s \in DOMAIN spc |->
                  IF pending_writes = 0 /\ spc[s] = "waiting" THEN "woken" ELSE spc[s]]
    /\ WriterStep("unlock")
    /\ UNCHANGED <<colVars, time_index, queueVars, flagVars, lockVars, prodVars,
                   ssnap, readVars, lifeVars, histVars>>

\* the end of the block releases query_mutex
WUnlock ==
    /\ wpc = "unlock"
    /\ query_mutex' = [query_mutex EXCEPT !.writer = FALSE]
    /\ wpc' = "loop_test"
    /\ batch' = <<>>
    /\ UNCHANGED <<colVars, time_index, queueVars, flagVars, write_mutex, start_index,
                   prodVars, syncVars, readVars, lifeVars, histVars>>

(***************************************************************************)
(* sync().                                                                 *)
(***************************************************************************)
\* sync_requested.store(true)
SyncBegin(s) ==
    /\ dpc = "alive"
    /\ spc[s] = "idle"
    /\ sync_requested' = TRUE
    /\ spc' = [spc EXCEPT ![s] = "lock"]
    /\ ssnap' = [ssnap EXCEPT ![s] = returned]
    /\ UNCHANGED <<colVars, time_index, queueVars, stop_writer, lockVars, writerVars,
                   prodVars, readVars, lifeVars, histVars>>

\* unique_lock lock(write_mutex), on entry and when sync_cv.wait wakes up
SyncLock(s) ==
    /\ spc[s] \in {"lock", "woken"}
    /\ write_mutex = "free"
    /\ write_mutex' = s
    /\ spc' = [spc EXCEPT ![s] = "pred"]
    /\ UNCHANGED <<colVars, time_index, queueVars, flagVars, query_mutex, writerVars,
                   prodVars, ssnap, readVars, lifeVars, histVars>>

\* mutant: sync waits for the queue to be empty, not for pending-writes
SyncPredQueueEmpty == write_queue = <<>>

\* the predicate of sync_cv.wait
SyncPred == pending_writes = 0

\* sync_cv.wait evaluates its predicate, the mutex held
SyncWaitPred(s) ==
    /\ spc[s] = "pred"
    /\ spc' = [spc EXCEPT ![s] = IF SyncPred THEN "clear" ELSE "block"]
    /\ UNCHANGED <<colVars, time_index, queueVars, flagVars, lockVars, writerVars,
                   prodVars, ssnap, readVars, lifeVars, histVars>>

\* sync_cv.wait releases the mutex and blocks
SyncBlock(s) ==
    /\ spc[s] = "block"
    /\ write_mutex' = "free"
    /\ spc' = [spc EXCEPT ![s] = "waiting"]
    /\ UNCHANGED <<colVars, time_index, queueVars, flagVars, query_mutex, writerVars,
                   prodVars, ssnap, readVars, lifeVars, histVars>>

\* a spurious wake-up of sync_cv.wait
SyncSpurious(s) ==
    /\ spc[s] = "waiting"
    /\ spc' = [spc EXCEPT ![s] = "woken"]
    /\ UNCHANGED <<colVars, time_index, queueVars, flagVars, lockVars, writerVars,
                   prodVars, ssnap, readVars, lifeVars, histVars>>

\* sync_requested.store(false); the lock is released and sync returns
SyncReturn(s) ==
    /\ spc[s] = "clear"
    /\ sync_requested' = FALSE
    /\ write_mutex' = "free"
    /\ spc' = [spc EXCEPT ![s] = "idle"]
    /\ ssnap' = [ssnap EXCEPT ![s] = {}]
    /\ synced' = synced \cup ssnap[s]
    /\ UNCHANGED <<colVars, time_index, queueVars, stop_writer, query_mutex, writerVars,
                   prodVars, readVars, lifeVars, returned, calls, nextTick, ticksLeft, appender,
                   inserted, threadVars>>

(***************************************************************************)
(* Readers: query_range and query_last, under shared_lock(query_mutex).    *)
(***************************************************************************)
\* mutant: a reader's lock does not wait for the Writer to leave
SharedIgnoresWriter == TRUE

\* whether shared_lock(query_mutex) can be taken
SharedFree == ~query_mutex.writer

QueryCall(r, q, result) ==
    /\ dpc = "alive"
    /\ rpc[r] = "idle"
    /\ SharedFree
    /\ query_mutex' = [query_mutex EXCEPT !.readers = @ \cup {r}]
    /\ rpc' = [rpc EXCEPT ![r] = "reading"]
    /\ rq' = [rq EXCEPT ![r] = q]
    /\ rres' = [rres EXCEPT ![r] = result]
    /\ UNCHANGED <<colVars, time_index, queueVars, flagVars, write_mutex, writerVars,
                   prodVars, syncVars, counter, lifeVars, histVars>>

QueryRange(r) ==
    \E lo \in Keys : \E hi \in Keys :
        QueryCall(r, [kind |-> "range", a |-> lo, b |-> hi],
                  query_range(time_index, prices, volumes, lo, hi))

QueryLast(r) ==
    \E n \in 0..MaxTicks :
        QueryCall(r, [kind |-> "last", a |-> n, b |-> 0],
                  query_last(timestamps, prices, volumes, n))

\* the query returns its vector; the shared lock is released
QueryReturn(r) ==
    /\ rpc[r] = "reading"
    /\ query_mutex' = [query_mutex EXCEPT !.readers = @ \ {r}]
    /\ rpc' = [rpc EXCEPT ![r] = "idle"]
    /\ rq' = [rq EXCEPT ![r] = [kind |-> "none", a |-> 0, b |-> 0]]
    /\ rres' = [rres EXCEPT ![r] = [threw |-> FALSE, ticks |-> <<>>]]
    /\ UNCHANGED <<colVars, time_index, queueVars, flagVars, write_mutex, writerVars,
                   prodVars, syncVars, counter, lifeVars, histVars>>

(***************************************************************************)
(* get_count(): three atomic loads, no lock taken.                         *)
(***************************************************************************)
\* size_t ts_count = timestamps.get_count()
CountLoadTs ==
    /\ dpc = "alive"
    /\ counter.pc = "idle"
    /\ counter' = [pc |-> "load_pr", ts |-> timestamps.count, pr |-> 0, vol |-> 0,
                   warned |-> FALSE, result |-> 0]
    /\ UNCHANGED <<colVars, time_index, queueVars, flagVars, lockVars, writerVars,
                   prodVars, syncVars, rpc, rq, rres, lifeVars, histVars>>

\* size_t pr_count = prices.get_count()
CountLoadPr ==
    /\ counter.pc = "load_pr"
    /\ counter' = [counter EXCEPT !.pc = "load_vol", !.pr = prices.count]
    /\ UNCHANGED <<colVars, time_index, queueVars, flagVars, lockVars, writerVars,
                   prodVars, syncVars, rpc, rq, rres, lifeVars, histVars>>

\* size_t vol_count = volumes.get_count()
CountLoadVol ==
    /\ counter.pc = "load_vol"
    /\ counter' = [counter EXCEPT !.pc = "compare", !.vol = volumes.count]
    /\ UNCHANGED <<colVars, time_index, queueVars, flagVars, lockVars, writerVars,
                   prodVars, syncVars, rpc, rq, rres, lifeVars, histVars>>

\* if (ts_count != pr_count || pr_count != vol_count) { WARNING; return min }
\* return ts_count
CountReturn ==
    /\ counter.pc = "compare"
    /\ counter' = [counter EXCEPT
           !.pc = "idle",
           !.warned = (counter.ts # counter.pr \/ counter.pr # counter.vol),
           !.result = get_count([count |-> counter.ts], [count |-> counter.pr],
                                [count |-> counter.vol])]
    /\ UNCHANGED <<colVars, time_index, queueVars, flagVars, lockVars, writerVars,
                   prodVars, syncVars, rpc, rq, rres, lifeVars, histVars>>

(***************************************************************************)
(* Lifecycle: ~TimeSeriesDB, then the constructor on the same directory.   *)
(***************************************************************************)
ClientsIdle ==
    /\ \A p \in Producers : ppc[p] = "idle"
    /\ \A s \in DOMAIN spc : spc[s] = "idle"
    /\ \A r \in Readers : rpc[r] = "idle"
    /\ counter.pc = "idle"

\* stop_writer.store(true); what the caller could observe before is recorded
DtorBegin ==
    /\ dpc = "alive"
    /\ ClientsIdle
    /\ stop_writer' = TRUE
    /\ dpc' = "dtor_notify"
    /\ preClose' = [taken   |-> TRUE,
                    pending |-> pending_writes,
                    count   |-> get_count(timestamps, prices, volumes),
                    rows    |-> IF pending_writes = 0
                                THEN query_range(time_index, prices, volumes, 0, MaxTs).ticks
                                ELSE <<>>]
    /\ UNCHANGED <<colVars, time_index, queueVars, sync_requested, lockVars, writerVars,
                   prodVars, syncVars, readVars, reopens, histVars>>

\* cv.notify_all()
DtorNotify ==
    /\ dpc = "dtor_notify"
    /\ wpc' = IF wpc = "cv_waiting" THEN "cv_woken" ELSE wpc
    /\ dpc' = "join"
    /\ UNCHANGED <<colVars, time_index, queueVars, flagVars, lockVars, batch, start_index,
                   prodVars, syncVars, readVars, reopens, preClose, histVars>>

\* writer_thread.join() returns; the members are destroyed, the Columns last
DtorJoin ==
    /\ dpc = "join"
    /\ wpc = "exited"
    /\ timestamps' = CloseColumn(timestamps)
    /\ prices' = CloseColumn(prices)
    /\ volumes' = CloseColumn(volumes)
    /\ time_index' = BPlusTree
    /\ dpc' = "closed"
    /\ UNCHANGED <<queueVars, flagVars, lockVars, writerVars, prodVars, syncVars,
                   readVars, reopens, preClose, histVars>>

\* TimeSeriesDB::TimeSeriesDB on the same directory and symbol
Reopen ==
    /\ dpc = "closed"
    /\ reopens < MaxReopens
    /\ timestamps' = ColumnStorage(FileOf(timestamps))
    /\ prices' = ColumnStorage(FileOf(prices))
    /\ volumes' = ColumnStorage(FileOf(volumes))
    /\ time_index' = rebuild_index(ColumnStorage(FileOf(timestamps)))
    /\ write_queue' = <<>>
    /\ pending_writes' = 0
    /\ sync_requested' = FALSE
    /\ stop_writer' = FALSE
    /\ wpc' = "loop_test"
    /\ batch' = <<>>
    /\ start_index' = 0
    /\ dpc' = "opened"
    /\ reopens' = reopens + 1
    /\ returned' = {}
    /\ synced' = {}
    /\ calls' = {}
    /\ UNCHANGED <<lockVars, prodVars, syncVars, readVars, preClose, nextTick, ticksLeft,
                   appender, inserted, threadVars>>

\* the constructor has returned: the clients use the new Series
Resume ==
    /\ dpc = "opened"
    /\ dpc' = "alive"
    /\ UNCHANGED <<colVars, time_index, queueVars, flagVars, lockVars, writerVars, prodVars,
                   syncVars, readVars, reopens, preClose, histVars>>

(***************************************************************************)
(* Specifications.                                                         *)
(***************************************************************************)
Writer ==
    \/ WLoopTest \/ WLockQueue \/ WWaitPred \/ WBlock \/ WSpurious \/ WTake
    \/ WLockSeries \/ WAppendTs \/ WAppendPrices \/ WAppendVolumes \/ WFlush
    \/ WIndex \/ WDecPending \/ WCheckSync \/ WNotifySync \/ WUnlock

Next ==
    \/ \E p \in Producers : append(p) \/ append_batch(p) \/ Push(p) \/ Notify(p)
    \/ Writer
    \/ \E s \in Syncers : \/ SyncBegin(s) \/ SyncLock(s) \/ SyncWaitPred(s)
                          \/ SyncBlock(s) \/ SyncSpurious(s) \/ SyncReturn(s)
    \/ \E r \in Readers : QueryRange(r) \/ QueryLast(r) \/ QueryReturn(r)
    \/ DtorBegin \/ DtorNotify \/ DtorJoin \/ Reopen \/ Resume

Spec == Init /\ [][Next]_vars

SpecIndexed == InitIndexed /\ [][Next]_vars

\* a Series opened on files whose columns are full: the next append grows them
InitFull ==
    LET n    == CHUNK_SIZE \div ELEMENT_SIZE
        rows == PriorRows(n, n \div 2)
    IN  Constructed(PriorFile([i \in 1..n |-> rows[i].timestamp]),
                    PriorFile([i \in 1..n |-> rows[i].price]),
                    PriorFile([i \in 1..n |-> rows[i].volume]),
                    n + 1, MaxTicksFull)

\* the Series in use, a growing column being able to fail
NextFull ==
    \/ \E p \in Producers : append(p) \/ append_batch(p) \/ Push(p) \/ Notify(p)
    \/ Writer
    \/ WAppendFails
    \/ \E s \in Syncers : \/ SyncBegin(s) \/ SyncLock(s) \/ SyncWaitPred(s)
                          \/ SyncBlock(s) \/ SyncSpurious(s) \/ SyncReturn(s)
    \/ \E r \in Readers : QueryRange(r) \/ QueryLast(r) \/ QueryReturn(r)

SpecFull == InitFull /\ [][NextFull]_vars

(***************************************************************************)
(* A Column used on its own: the timestamps Column, one thread appending.  *)
(* append and append_batch are taken in two steps, the count raised        *)
(* (fetch_add), then the elements copied (memcpy).                         *)
(***************************************************************************)
\* sizes of the batches given to append_batch
ColumnBatchSizes == {0, 2, CHUNK_SIZE \div ELEMENT_SIZE, BATCH_SIZE}

\* the files a Column may be opened on: none yet, too small, or with room for
\* up to two elements and any count in the header
ColumnFiles ==
    {NewFile, [file_size |-> HEADER_SIZE - 1, header |-> 0, data |-> <<>>]}
    \cup {[file_size |-> HEADER_SIZE + cap * ELEMENT_SIZE, header |-> h,
           data |-> [i \in 1..cap |-> 0]] : cap \in 0..2, h \in 0..MaxHeader}

\* the timestamps Column opened on file, nothing else in use
ColumnOn(file) ==
    /\ timestamps = ColumnStorage(file)
    /\ prices = ColumnStorage(NewFile)
    /\ volumes = ColumnStorage(NewFile)
    /\ time_index = BPlusTree
    /\ Started(Syncers, 1, 0)

InitColumn == ColumnOn(NewFile)

InitColumnFiles == \E file \in ColumnFiles : ColumnOn(file)

ColumnCall ==
    /\ timestamps.mapped
    /\ appender.pc = "idle"
    /\ appender.ops < MaxColumnOps

\* append(&v) up to the fetch_add; the element appended is the number of its slot
ColumnAppendBegin ==
    /\ ColumnCall
    /\ timestamps' = AppendReserve(timestamps)
    /\ appender' = [pc |-> "copy", pos |-> timestamps.count, vs |-> <<timestamps.count>>,
                    ops |-> appender.ops + 1]
    /\ UNCHANGED <<prices, volumes, time_index, queueVars, flagVars, lockVars, writerVars,
                   prodVars, syncVars, readVars, lifeVars, returned, synced, calls,
                   nextTick, ticksLeft, inserted, threadVars>>

\* append_batch(data, n) up to the fetch_add; with n = 0 it returns at once
ColumnAppendBatchBegin ==
    /\ ColumnCall
    /\ \E n \in ColumnBatchSizes :
           IF n = 0
           THEN /\ appender' = [appender EXCEPT !.ops = appender.ops + 1]
                /\ UNCHANGED timestamps
           ELSE /\ timestamps' = BatchReserve(timestamps, n)
                /\ appender' = [pc |-> "copy", pos |-> timestamps.count,
                                vs |-> [i \in 1..n |-> timestamps.count + i - 1],
                                ops |-> appender.ops + 1]
    /\ UNCHANGED <<prices, volumes, time_index, queueVars, flagVars, lockVars, writerVars,
                   prodVars, syncVars, readVars, lifeVars, returned, synced, calls,
                   nextTick, ticksLeft, inserted, threadVars>>

\* memcpy(dest, data, ...) and the return of append or append_batch
ColumnCopy ==
    /\ appender.pc = "copy"
    /\ timestamps' = [timestamps EXCEPT
                          !.data = WriteSlots(timestamps.data, appender.pos, appender.vs)]
    /\ appender' = [appender EXCEPT !.pc = "idle", !.vs = <<>>, !.pos = 0]
    /\ UNCHANGED <<prices, volumes, time_index, queueVars, flagVars, lockVars, writerVars,
                   prodVars, syncVars, readVars, lifeVars, returned, synced, calls,
                   nextTick, ticksLeft, inserted, threadVars>>

\* flush_header()
ColumnFlush ==
    /\ ColumnCall
    /\ timestamps' = flush_header(timestamps)
    /\ appender' = [appender EXCEPT !.ops = appender.ops + 1]
    /\ UNCHANGED <<prices, volumes, time_index, queueVars, flagVars, lockVars, writerVars,
                   prodVars, syncVars, readVars, lifeVars, returned, synced, calls,
                   nextTick, ticksLeft, inserted, threadVars>>

\* the Column is destroyed and a Column is opened on the file it leaves
ColumnReopen ==
    /\ ColumnCall
    /\ timestamps' = ColumnStorage(FileOf(CloseColumn(timestamps)))
    /\ appender' = [appender EXCEPT !.ops = appender.ops + 1]
    /\ UNCHANGED <<prices, volumes, time_index, queueVars, flagVars, lockVars, writerVars,
                   prodVars, syncVars, readVars, lifeVars, returned, synced, calls,
                   nextTick, ticksLeft, inserted, threadVars>>

NextColumn ==
    \/ ColumnAppendBegin \/ ColumnAppendBatchBegin \/ ColumnCopy
    \/ ColumnFlush \/ ColumnReopen

\* a Column created on a new file
SpecColumn == InitColumn /\ [][NextColumn]_vars

\* a Column opened on whatever file is there
SpecColumnFiles == InitColumnFiles /\ [][NextColumn]_vars

(***************************************************************************)
(* One Column, the timestamps Column, appended to by several threads.      *)
(* append and append_batch are taken statement by statement.  Each of the  *)
(* two functions has its own function-local static remap_mutex.            *)
(***************************************************************************)
\* sizes of the batches the threads give to append_batch
ThreadBatchSizes == {2, CHUNK_SIZE \div ELEMENT_SIZE}

\* size_t current_count = count.load(), on entry to append (n = 1) or
\* append_batch
ThreadCall(t, op, n) ==
    /\ timestamps.mapped
    /\ appenders[t].pc = "idle"
    /\ appenders[t].calls < MaxThreadCalls
    /\ appenders' = [appenders EXCEPT ![t] =
           [pc |-> "check", op |-> op, n |-> n, current_count |-> timestamps.count,
            new_capacity |-> 0, pos |-> 0, calls |-> appenders[t].calls + 1]]
    /\ UNCHANGED <<colVars, time_index, queueVars, flagVars, lockVars, writerVars,
                   prodVars, syncVars, readVars, lifeVars, returned, synced, calls,
                   nextTick, ticksLeft, appender, inserted, remap_mutex>>

\* the test that decides whether the file must grow: current_count >= capacity
\* in append, current_count + batch_count > capacity in append_batch
MustGrow(a, capacity) ==
    IF a.op = "append" THEN a.current_count >= capacity
    ELSE a.current_count + a.n > capacity

\* if (current_count >= capacity) / if (current_count + batch_count > capacity)
ThreadCheck(t) ==
    /\ appenders[t].pc = "check"
    /\ appenders' = [appenders EXCEPT ![t].pc =
           IF MustGrow(appenders[t], timestamps.capacity) THEN "lock" ELSE "reserve"]
    /\ UNCHANGED <<colVars, time_index, queueVars, flagVars, lockVars, writerVars,
                   prodVars, syncVars, readVars, lifeVars, returned, synced, calls,
                   nextTick, ticksLeft, appender, inserted, remap_mutex>>

\* std::lock_guard<std::mutex> lock(remap_mutex): the mutex of this function
ThreadLock(t) ==
    /\ appenders[t].pc = "lock"
    /\ remap_mutex[appenders[t].op] = "free"
    /\ remap_mutex' = [remap_mutex EXCEPT ![appenders[t].op] = t]
    /\ appenders' = [appenders EXCEPT ![t].pc = "recheck"]
    /\ UNCHANGED <<colVars, time_index, queueVars, flagVars, lockVars, writerVars,
                   prodVars, syncVars, readVars, lifeVars, returned, synced, calls,
                   nextTick, ticksLeft, appender, inserted>>

\* the test again, the mutex held (append_batch loads the count again, append
\* does not), and new_capacity computed; if nothing is to grow the mutex is let go
ThreadRecheck(t) ==
    LET a   == appenders[t]
        a1  == IF a.op = "append" THEN a
               ELSE [a EXCEPT !.current_count = timestamps.count]
        new == IF a.op = "append" THEN AppendGrow(timestamps.capacity)
               ELSE BatchGrow(timestamps.capacity, timestamps.capacity,
                              a1.current_count + a.n)
    IN  /\ a.pc = "recheck"
        /\ IF MustGrow(a1, timestamps.capacity)
           THEN /\ appenders' = [appenders EXCEPT
                                    ![t] = [a1 EXCEPT !.pc = "grow", !.new_capacity = new]]
                /\ UNCHANGED remap_mutex
           ELSE /\ appenders' = [appenders EXCEPT ![t] = [a1 EXCEPT !.pc = "reserve"]]
                /\ remap_mutex' = [remap_mutex EXCEPT ![a.op] = "free"]
        /\ UNCHANGED <<colVars, time_index, queueVars, flagVars, lockVars, writerVars,
                       prodVars, syncVars, readVars, lifeVars, returned, synced, calls,
                       nextTick, ticksLeft, appender, inserted>>

\* ftruncate(fd, new_total_size); capacity = new_capacity; remap(); the mutex is
\* let go at the end of the block
ThreadGrow(t) ==
    /\ appenders[t].pc = "grow"
    /\ timestamps' = [timestamps EXCEPT
           !.capacity  = appenders[t].new_capacity,
           !.file_size = HEADER_SIZE + appenders[t].new_capacity * ELEMENT_SIZE]
    /\ remap_mutex' = [remap_mutex EXCEPT ![appenders[t].op] = "free"]
    /\ appenders' = [appenders EXCEPT ![t].pc = "reserve"]
    /\ UNCHANGED <<prices, volumes, time_index, queueVars, flagVars, lockVars, writerVars,
                   prodVars, syncVars, readVars, lifeVars, returned, synced, calls,
                   nextTick, ticksLeft, appender, inserted>>

\* size_t pos = count.fetch_add(n)
ThreadReserve(t) ==
    /\ appenders[t].pc = "reserve"
    /\ timestamps' = [timestamps EXCEPT !.count = timestamps.count + appenders[t].n]
    /\ appenders' = [appenders EXCEPT ![t].pc = "copy", ![t].pos = timestamps.count]
    /\ UNCHANGED <<prices, volumes, time_index, queueVars, flagVars, lockVars, writerVars,
                   prodVars, syncVars, readVars, lifeVars, returned, synced, calls,
                   nextTick, ticksLeft, appender, inserted, remap_mutex>>

\* the slots of the run from pos on that lie inside a mapping of capacity slots
SlotsInside(pos, n, capacity) ==
    IF pos >= capacity THEN 0 ELSE MinOf(n, capacity - pos)

\* memcpy(dest, data, n * element_size), each element the number of its slot.
\* A copy that runs past the end of the mapping is undefined: the thread faults
\* and the process ends, or the part past the mapping is lost.
ThreadCopy(t) ==
    LET a      == appenders[t]
        inside == SlotsInside(a.pos, a.n, timestamps.capacity)
        copied == [timestamps EXCEPT
                      !.data = WriteSlots(timestamps.data, a.pos,
                                          [i \in 1..inside |-> a.pos + i - 1])]
    IN  /\ a.pc = "copy"
        /\ \/ /\ timestamps' = copied
              /\ appenders' = [appenders EXCEPT ![t].pc = "idle"]
           \/ /\ inside < a.n
              /\ timestamps' = timestamps
              /\ appenders' = [u \in ColumnThreads |-> [appenders[u] EXCEPT !.pc = "dead"]]
        /\ UNCHANGED <<prices, volumes, time_index, queueVars, flagVars, lockVars,
                       writerVars, prodVars, syncVars, readVars, lifeVars, returned, synced,
                       calls, nextTick, ticksLeft, appender, inserted, remap_mutex>>

NextColumnThreads ==
    \E t \in ColumnThreads :
        \/ ThreadCall(t, "append", 1)
        \/ \E n \in ThreadBatchSizes : ThreadCall(t, "append_batch", n)
        \/ ThreadCheck(t) \/ ThreadLock(t) \/ ThreadRecheck(t) \/ ThreadGrow(t)
        \/ ThreadReserve(t) \/ ThreadCopy(t)

SpecColumnThreads == InitColumn /\ [][NextColumnThreads]_vars

(***************************************************************************)
(* The Index used on its own: runs of inserts, as the Writer makes them    *)
(* for a batch, with keys that do not decrease.                            *)
(***************************************************************************)
InitTree == ColumnOn(NewFile)

\* time_index.insert(k, start + i) for a run of TreeRun entries with key k
IndexRun(k) ==
    LET pairs == IndexPairs(time_index)
        start == Len(pairs)
    IN  /\ start + TreeRun <= MaxTreeEntries
        /\ start > 0 => pairs[start][1] <= k
        /\ time_index' = insert_all(time_index, [i \in 1..TreeRun |-> k], start, 1, TreeRun)
        /\ inserted' = inserted \o [i \in 1..TreeRun |-> k]
        /\ UNCHANGED <<colVars, queueVars, flagVars, lockVars, writerVars, prodVars,
                       syncVars, readVars, lifeVars, returned, synced, calls, nextTick,
                       ticksLeft, appender, threadVars>>

NextTree == \E k \in Keys : IndexRun(k)

SpecTree == InitTree /\ [][NextTree]_vars

(***************************************************************************)
(* The Index used on its own with keys in any order: runs of inserts whose *)
(* keys are equal, ascend or descend, starting anywhere, on an empty tree  *)
(* or on a tree of three levels that was loaded in key order.              *)
(***************************************************************************)
RunShapes == {"equal", "ascending", "descending"}

\* where the keys of a run start: at the lowest key, inside the first leaf of a
\* loaded tree, in the middle of it
RunBases == {0, TreeRun \div 2, LoadedEntries \div 2}

\* the keys of a run
RunKeys(k, shape) ==
    [i \in 1..TreeRun |-> IF shape = "equal" THEN k
                          ELSE IF shape = "ascending" THEN k + i - 1
                          ELSE k + TreeRun - i]

\* time_index.insert(i, i) for the rows 0..LoadedEntries-1 of a column whose
\* timestamps ascend, as rebuild_index makes them
IndexLoad ==
    /\ inserted = <<>>
    /\ time_index' = insert_all(time_index, [i \in 1..LoadedEntries |-> i - 1], 0,
                                1, LoadedEntries)
    /\ inserted' = [i \in 1..LoadedEntries |-> i - 1]
    /\ UNCHANGED <<colVars, queueVars, flagVars, lockVars, writerVars, prodVars,
                   syncVars, readVars, lifeVars, returned, synced, calls, nextTick,
                   ticksLeft, appender, threadVars>>

\* entries inserted in any order so far
Unordered == IF Len(inserted) >= LoadedEntries THEN Len(inserted) - LoadedEntries
             ELSE Len(inserted)

\* time_index.insert(keys[i], count + i) for a run of TreeRun keys
IndexInsertRun(k, shape) ==
    /\ Unordered + TreeRun <= MaxUnorderedEntries
    /\ time_index' = insert_all(time_index, RunKeys(k, shape), Len(inserted), 1, TreeRun)
    /\ inserted' = inserted \o RunKeys(k, shape)
    /\ UNCHANGED <<colVars, queueVars, flagVars, lockVars, writerVars, prodVars,
                   syncVars, readVars, lifeVars, returned, synced, calls, nextTick,
                   ticksLeft, appender, threadVars>>

NextTreeAnyOrder ==
    \/ IndexLoad
    \/ \E k \in RunBases : \E shape \in RunShapes : IndexInsertRun(k, shape)

SpecTreeAnyOrder == InitTree /\ [][NextTreeAnyOrder]_vars

\* a new Series used by producers and a sync() caller while a thread calls
\* get_count(); no reader, no destruction
NextCount ==
    \/ \E p \in Producers : append(p) \/ append_batch(p) \/ Push(p) \/ Notify(p)
    \/ Writer
    \/ \E s \in Syncers : \/ SyncBegin(s) \/ SyncLock(s) \/ SyncWaitPred(s)
                          \/ SyncBlock(s) \/ SyncSpurious(s) \/ SyncReturn(s)
    \/ CountLoadTs \/ CountLoadPr \/ CountLoadVol \/ CountReturn

SpecCount == Init /\ [][NextCount]_vars

\* a new Series used by producers while two threads call sync(); no reader, no
\* destruction
InitSyncers ==
    /\ timestamps = ColumnStorage(NewFile)
    /\ prices = ColumnStorage(NewFile)
    /\ volumes = ColumnStorage(NewFile)
    /\ time_index = rebuild_index(ColumnStorage(NewFile))
    /\ Started(SyncCallers, 1, MaxTicksSyncers)

NextSyncers ==
    \/ \E p \in Producers : append(p) \/ append_batch(p) \/ Push(p) \/ Notify(p)
    \/ Writer
    \/ \E s \in SyncCallers : \/ SyncBegin(s) \/ SyncLock(s) \/ SyncWaitPred(s)
                              \/ SyncBlock(s) \/ SyncSpurious(s) \/ SyncReturn(s)

SpecSyncers == InitSyncers /\ [][NextSyncers]_vars

\* a new Series used by the producer threads and a sync() caller, no reader
InitProducers == Constructed(NewFile, NewFile, NewFile, 1, MaxTicksProducers)

NextProducers ==
    \/ \E p \in Producers : append(p) \/ append_batch(p) \/ Push(p) \/ Notify(p)
    \/ Writer
    \/ \E s \in Syncers : \/ SyncBegin(s) \/ SyncLock(s) \/ SyncWaitPred(s)
                          \/ SyncBlock(s) \/ SyncSpurious(s) \/ SyncReturn(s)

SpecProducers == InitProducers /\ [][NextProducers]_vars

(***************************************************************************)
(* Properties.                                                             *)
(***************************************************************************)
\* the smallest of the three column counts
RowCount == MinOf(timestamps.count, MinOf(prices.count, volumes.count))

\* the tick is a row of all three Columns and that row is in the Index
Committed(tk) ==
    \E i \in 0..(RowCount - 1) :
        /\ timestamps.data[i + 1] = tk.timestamp
        /\ prices.data[i + 1] = tk.price
        /\ volumes.data[i + 1] = tk.volume
        /\ <<tk.timestamp, i>> \in IndexEntries(time_index)

\* C1: when sync() has seen its predicate hold and returns, every tick whose
\* append or append_batch call returned before that sync() began is a row of the
\* three Columns and has its entry in the Index.
C1_SyncCoversEarlierAppends ==
    \A s \in Syncers : spc[s] = "clear" => \A tk \in ssnap[s] : Committed(tk)

\* a sync() that began after appends by both producer calls returned is returning
C1_Witness ==
    \E s \in Syncers : spc[s] = "clear" /\ Cardinality(ssnap[s]) >= 2

\* C3: when the Writer thread has exited, the write queue is empty and
\* pending-writes is zero.
C3_WriterExitsDrained ==
    wpc = "exited" => (write_queue = <<>> /\ pending_writes = 0)

\* C5: while a reader holds the shared lock, the three Columns have the same
\* count and every Index entry points below that count.
C5_ReaderSeesWholeRows ==
    \A r \in Readers : rpc[r] = "reading" =>
        /\ timestamps.count = prices.count
        /\ prices.count = volumes.count
        /\ \A e \in IndexEntries(time_index) : e[2] < RowCount

\* a reader holds the shared lock on a non-empty series while the Writer has a
\* batch to commit
C5_Witness ==
    \E r \in Readers : rpc[r] = "reading" /\ timestamps.count > 0 /\ wpc = "have_batch"


(***************************************************************************)
(* Scheduling: every thread that can run does run, a lock that keeps       *)
(* becoming free is taken.  Neither a spurious wake-up nor a new call by a *)
(* client is ever sure to happen.                                          *)
(***************************************************************************)
WriterRuns ==
    \/ WLoopTest \/ WWaitPred \/ WBlock \/ WTake \/ WAppendTs \/ WAppendPrices
    \/ WAppendVolumes \/ WFlush \/ WIndex \/ WDecPending \/ WCheckSync \/ WNotifySync
    \/ WUnlock

Fairness ==
    /\ WF_vars(WriterRuns)
    /\ SF_vars(WLockQueue)
    /\ SF_vars(WLockSeries)
    /\ \A p \in Producers : SF_vars(Push(p)) /\ WF_vars(Notify(p))
    /\ \A s \in Syncers : /\ SF_vars(SyncLock(s))
                          /\ WF_vars(SyncWaitPred(s) \/ SyncBlock(s) \/ SyncReturn(s))
    /\ \A r \in Readers : WF_vars(QueryReturn(r))
    /\ WF_vars(DtorNotify \/ DtorJoin)

FairSpec == Spec /\ Fairness

\* C2: with a single sync() caller and a fairly scheduled Writer, a call to
\* sync() eventually returns.
C2_SyncReturns == \A s \in Syncers : (spc[s] # "idle") ~> (spc[s] = "idle")

\* C4: once the destructor has set stop-writer, the Writer exits, the join
\* returns and the destruction ends.
C4_DestructionEnds == (dpc = "dtor_notify") ~> (dpc = "closed")


\* the committed rows, in row order
Rows == [i \in 1..RowCount |-> <<timestamps.data[i], prices.data[i], volumes.data[i]>>]

Occurrences(seq, x) == Cardinality({j \in 1..Len(seq) : seq[j] = x})

SameBag(s1, s2) ==
    /\ Len(s1) = Len(s2)
    /\ \A x \in Range(s1) \cup Range(s2) : Occurrences(s1, x) = Occurrences(s2, x)

\* C6: on a series at rest, query_range(lo, hi) with lo <= hi returns exactly the
\* committed rows whose timestamp lies in [lo, hi], each as often as it occurs.
C6_RangeQueryExact ==
    \A r \in Readers :
        (rpc[r] = "reading" /\ rq[r].kind = "range" /\ rq[r].a <= rq[r].b
                            /\ pending_writes = 0) =>
            /\ ~rres[r].threw
            /\ SameBag(rres[r].ticks,
                       SelectSeq(Rows, LAMBDA x : rq[r].a <= x[1] /\ x[1] <= rq[r].b))

\* C7: the pairs range_query returns are in ascending key order, and pairs with
\* equal keys are in ascending order of row index (the order of their insertion).
C7_RangeOrderedTiesByInsertion ==
    \A r \in Readers :
        (rpc[r] = "reading" /\ rq[r].kind = "range") =>
            LET es == range_query(time_index, rq[r].a, rq[r].b)
            IN  \A i \in 1..Len(es) : \A j \in 1..Len(es) :
                    i < j => \/ es[i][1] < es[j][1]
                             \/ (es[i][1] = es[j][1] /\ es[i][2] < es[j][2])

\* C8: after append(t, p, v) has returned and a later sync() has returned,
\* query_range(t, t) contains the row (t, p, v).
C8_RoundTrip ==
    \A r \in Readers :
        (rpc[r] = "reading" /\ rq[r].kind = "range" /\ rq[r].a = rq[r].b) =>
            \A tk \in synced :
                tk.timestamp = rq[r].a =>
                    <<tk.timestamp, tk.price, tk.volume>> \in Range(rres[r].ticks)

\* C9: query_last(n) returns the last min(n, count) committed rows in row order.
C9_QueryLastTail ==
    \A r \in Readers :
        (rpc[r] = "reading" /\ rq[r].kind = "last") =>
            /\ ~rres[r].threw
            /\ rres[r].ticks = SubSeq(Rows, RowCount - MinOf(rq[r].a, RowCount) + 1, RowCount)

\* query_last(n) is answered with a proper, non-empty tail of the rows
C9_Witness ==
    \E r \in Readers : /\ rpc[r] = "reading" /\ rq[r].kind = "last"
                       /\ 0 < rq[r].a /\ rq[r].a < RowCount

\* C10: a Series destroyed with no pending writes and opened again on the same
\* files has the same count() and the same query_range(0, MAX) as before.
C10_ReopenSame ==
    (dpc = "opened" /\ preClose.taken /\ preClose.pending = 0) =>
        /\ get_count(timestamps, prices, volumes) = preClose.count
        /\ query_range(time_index, prices, volumes, 0, MaxTs).ticks = preClose.rows

\* a Series is opened again after a tick was appended to it and committed
C10_Witness ==
    /\ dpc = "opened" /\ preClose.taken /\ preClose.pending = 0
    /\ timestamps.count >= nextTick - 1
    /\ ticksLeft = 0


\* the row that holds the tick named by this price, 0 if none does
RowOf(tk) ==
    IF \E i \in 1..prices.count : prices.data[i] = tk.price
    THEN CHOOSE i \in 1..prices.count : prices.data[i] = tk.price
    ELSE 0

\* C11: if the call that enqueued tick a returned before the call that enqueued
\* tick b began, then b is in the Columns only after a, at a larger row index.
C11_CommitOrderIsEnqueueOrder ==
    \A c \in calls : \A a \in c.before : \A i \in 1..Len(c.ticks) :
        RowOf(c.ticks[i]) > 0 => (RowOf(a) > 0 /\ RowOf(a) < RowOf(c.ticks[i]))

\* two calls, the second begun after the first returned, are both committed, and
\* the Writer took them in different batches
C11_Witness ==
    \E c \in calls : \E a \in c.before :
        /\ Len(c.ticks) > 0
        /\ RowOf(c.ticks[1]) > RowOf(a) + 1
        /\ RowOf(a) > 0


\* ticks counted in pending_writes: those of calls that have not pushed yet, those
\* queued, and those of the batch the Writer has not acknowledged yet
Unacknowledged ==
    LET unpushed == {p \in Producers : ppc[p] = "push"}
        sizes    == [p \in Producers |-> IF p \in unpushed THEN Len(pticks[p]) ELSE 0]
    IN  sizes[1] + sizes[2] + Len(write_queue)
        + (IF wpc \in {"have_batch", "append_ts", "append_prices", "append_volumes",
                       "flush", "index", "dec_pending"}
           THEN Len(batch) ELSE 0)

\* C12: the ticks of one append_batch call are at consecutive row indices in the
\* order given, no tick of another call between them, and pending_writes counts
\* each tick of the call exactly once.
C12_BatchEnqueuedAtomically ==
    /\ \A c \in calls : \A i \in 1..(Len(c.ticks) - 1) :
           RowOf(c.ticks[i + 1]) > 0 =>
               (RowOf(c.ticks[i]) > 0 /\ RowOf(c.ticks[i + 1]) = RowOf(c.ticks[i]) + 1)
    /\ pending_writes = Unacknowledged

\* an append_batch of two ticks and a call of another thread that ran at the
\* same time are both committed
C12_Witness ==
    \E c \in calls : \E d \in calls :
        /\ Len(c.ticks) = 2 /\ Len(d.ticks) = 1
        /\ d.ticks[1] \notin c.before
        /\ c.ticks[1] \notin d.before
        /\ RowOf(c.ticks[2]) > 0 /\ RowOf(d.ticks[1]) > 0
        /\ pending_writes = 0


\* the Series exists, nothing is pending and the Writer holds no batch
AtRest == dpc # "closed" /\ pending_writes = 0 /\ batch = <<>>

\* C13: at rest the three Columns have equal counts, the Index holds exactly
\* count entries, their values are the row indices 0..count-1, each once, and
\* the timestamp column holds at idx the key of the entry (ts, idx).
C13_AtRestConsistent ==
    AtRest =>
        LET pairs == IndexPairs(time_index)
        IN  /\ timestamps.count = prices.count
            /\ prices.count = volumes.count
            /\ Len(pairs) = timestamps.count
            /\ {pairs[i][2] : i \in 1..Len(pairs)} = 0..(timestamps.count - 1)
            /\ \A i \in 1..Len(pairs) :
                   /\ pairs[i][2] < timestamps.count
                   /\ timestamps.data[pairs[i][2] + 1] = pairs[i][1]

\* the Series is at rest after the Writer committed a tick that split a leaf
C13_Witness ==
    /\ AtRest
    /\ timestamps.count = ORDER
    /\ returned # {}
    /\ \A tk \in returned : RowOf(tk) = ORDER
    /\ ~time_index.nodes[time_index.root].is_leaf


\* the ticks appended to this Series object so far
AppendedTicks == UNION {Range(c.ticks) : c \in calls}

\* C14: with producers, the Writer and a reader running together, every row that
\* query_range returns is a row present in all three Columns at the time of the
\* read, and its three fields are those of one appended tick.
C14_RangeRowsAreSnapshots ==
    \A r \in Readers :
        (rpc[r] = "reading" /\ rq[r].kind = "range") =>
            /\ ~rres[r].threw
            /\ \A j \in 1..Len(rres[r].ticks) :
                   /\ \E i \in 1..RowCount : rres[r].ticks[j] = Rows[i]
                   /\ \A tk \in AppendedTicks :
                          rres[r].ticks[j][2] = tk.price =>
                              rres[r].ticks[j] = <<tk.timestamp, tk.price, tk.volume>>

\* a reader holds two rows of different timestamps, the later row first in the
\* Columns, while a producer call is under way
C14_Witness ==
    \E r \in Readers :
        /\ rpc[r] = "reading" /\ rq[r].kind = "range"
        /\ Len(rres[r].ticks) = 2
        /\ rres[r].ticks[1][2] > rres[r].ticks[2][2]
        /\ \E p \in Producers : ppc[p] # "idle"


\* C15: a Column append that fails inside a Writer batch poisons the Series and
\* nothing more: the threads calling it go on running, so that their calls can
\* return SeriesPoisoned and a waiting sync() caller can be released.
C15_FailedAppendPoisons ==
    /\ dpc # "aborted"
    /\ \A p \in Producers : ppc[p] # "dead"
    /\ \A s \in Syncers : spc[s] # "dead"
    /\ \A r \in Readers : rpc[r] # "dead"


\* C16: opening a Column on an existing file fails when the file is smaller than
\* the header or when the count in its header exceeds the capacity the file size
\* implies; no Column with count > capacity is produced.
C16_OpenRejectsCorruptHeader ==
    /\ timestamps.file_size < HEADER_SIZE => ~timestamps.mapped
    /\ timestamps.mapped => timestamps.count <= timestamps.capacity

\* C17: a Column created on a new file and then appended to and flushed by one
\* thread has 0 <= count <= capacity, its persisted header count <= capacity and
\* file_size = HEADER_SIZE + capacity * element_size.
C17_ColumnWithinCapacity ==
    /\ 0 <= timestamps.count
    /\ timestamps.count <= timestamps.capacity
    /\ timestamps.header <= timestamps.capacity
    /\ timestamps.file_size = HEADER_SIZE + timestamps.capacity * ELEMENT_SIZE

\* a full Column has grown by more than one chunk for a batch, and was flushed
C17_Witness ==
    /\ timestamps.capacity = 3 * (CHUNK_SIZE \div ELEMENT_SIZE)
    /\ timestamps.count = (CHUNK_SIZE \div ELEMENT_SIZE) + BATCH_SIZE
    /\ timestamps.header = timestamps.count

\* C18: a thread that observes count = K sees the copied element in every slot
\* 0..K-1: the copy into a slot precedes the count that covers the slot.
C18_CountCoversCopiedSlots ==
    timestamps.mapped =>
        \A i \in 1..timestamps.count :
            i <= Len(timestamps.data) /\ timestamps.data[i] = i - 1


\* the batch in the Writer's hands is in the three Columns, from start_index on
BatchInColumns ==
    /\ timestamps.count = start_index + Len(batch)
    /\ prices.count = start_index + Len(batch)
    /\ volumes.count = start_index + Len(batch)
    /\ \A i \in 1..Len(batch) :
           /\ timestamps.data[start_index + i] = batch[i].timestamp
           /\ prices.data[start_index + i] = batch[i].price
           /\ volumes.data[start_index + i] = batch[i].volume

\* the persisted headers cover the batch
BatchInHeaders ==
    /\ timestamps.header = timestamps.count
    /\ prices.header = prices.count
    /\ volumes.header = volumes.count

\* the Index holds (batch[i].ts, start + i) for every tick of the batch
BatchInIndex ==
    \A i \in 1..Len(batch) :
        <<batch[i].timestamp, start_index + i - 1>> \in IndexEntries(time_index)

\* C19: for each Writer batch the three Columns are appended, then the headers
\* flushed, then the Index entries (batch[i].ts, start + i) inserted, start being
\* the count before the appends, and only then pending_writes is lowered by the
\* length of the batch.
C19_BatchStepsInOrder ==
    /\ wpc = "append_ts" => timestamps.count = start_index
    /\ wpc \in {"flush", "index", "dec_pending", "check_sync", "check_pending", "unlock"}
           => BatchInColumns
    /\ wpc \in {"index", "dec_pending", "check_sync", "check_pending", "unlock"}
           => BatchInHeaders
    /\ wpc \in {"dec_pending", "check_sync", "check_pending", "unlock"} => BatchInIndex
    /\ wpc \in {"append_ts", "append_prices", "append_volumes", "flush", "index",
                "dec_pending"} => pending_writes >= Len(batch)
    /\ wpc \in {"check_sync", "check_pending", "unlock"}
           => pending_writes = Unacknowledged

\* the Writer has lowered pending_writes for a batch that follows an earlier row
C19_Witness ==
    /\ wpc = "check_sync"
    /\ Len(batch) = 1
    /\ start_index = 1
    /\ pending_writes = 0


\* the nodes of the tree that are in use
LiveNodes(t) == {n \in 1..Len(t.nodes) : t.nodes[n].live}

\* C20: after any sequence of inserts every leaf holds at most ORDER pairs and
\* every internal node, root or not, at most ORDER separators and ORDER + 1
\* children.
C20_NodesWithinOrder ==
    \A n \in LiveNodes(time_index) :
        LET node == time_index.nodes[n]
        IN  /\ Len(node.keys) <= ORDER
            /\ node.is_leaf => Len(node.values) <= ORDER
            /\ ~node.is_leaf => Len(node.children) <= ORDER + 1


\* every key held in the subtree below node nodeId, separators included
RECURSIVE SubtreeKeys(_, _)
SubtreeKeys(t, nodeId) ==
    LET node == t.nodes[nodeId]
    IN  Range(node.keys)
        \cup UNION {SubtreeKeys(t, node.children[c]) : c \in 1..Len(node.children)}

\* the internal nodes of the tree that are in use
LiveInternal(t) == {n \in LiveNodes(t) : ~t.nodes[n].is_leaf}

\* the keys of every node in use are sorted non-decreasing
NodesSorted(t) ==
    \A n \in LiveNodes(t) :
        \A i \in 1..(Len(t.nodes[n].keys) - 1) : t.nodes[n].keys[i] <= t.nodes[n].keys[i + 1]

\* C21 as stated: for every internal node with separators s_1..s_k and children
\* c_0..c_k, every key in subtree c_i is <= s_{i+1} and > s_i, and the keys of
\* every node are sorted non-decreasing.
C21_SeparatorsStrictBelow ==
    /\ NodesSorted(time_index)
    /\ \A n \in LiveInternal(time_index) :
           LET node == time_index.nodes[n]
           IN  \A c \in 1..Len(node.children) :
                   \A key \in SubtreeKeys(time_index, node.children[c]) :
                       /\ c <= Len(node.keys) => key <= node.keys[c]
                       /\ c > 1 => key > node.keys[c - 1]

\* C21, amended: for every internal node with separators s_1..s_k and children
\* c_0..c_k, every key in subtree c_i is <= s_{i+1} and >= s_i (a separator is
\* the first key of the subtree to its right), and the keys of every node are
\* sorted non-decreasing.
C21_SeparatorsBound ==
    /\ NodesSorted(time_index)
    /\ \A n \in LiveInternal(time_index) :
           LET node == time_index.nodes[n]
           IN  \A c \in 1..Len(node.children) :
                   \A key \in SubtreeKeys(time_index, node.children[c]) :
                       /\ c <= Len(node.keys) => key <= node.keys[c]
                       /\ c > 1 => key >= node.keys[c - 1]

\* a tree of three levels has taken inserts in any order, and equal keys lie on
\* both sides of one of its separators
C21_Witness ==
    /\ Len(inserted) > LoadedEntries
    /\ ~time_index.nodes[time_index.root].is_leaf
    /\ ~time_index.nodes[time_index.nodes[time_index.root].children[1]].is_leaf
    /\ \E n \in LiveInternal(time_index) :
           LET node == time_index.nodes[n]
           IN  \E c \in 1..Len(node.keys) :
                   /\ node.keys[c] \in SubtreeKeys(time_index, node.children[c])
                   /\ node.keys[c] \in SubtreeKeys(time_index, node.children[c + 1])



\* C22: following the leaf forward links from the leftmost leaf visits every
\* inserted entry exactly once, with the key it was inserted with, and visits the
\* keys in non-decreasing order, whatever the order of the inserts and through
\* leaf and root splits.
C22_ChainHoldsEveryEntryInOrder ==
    LET pairs == IndexPairs(time_index)
    IN  /\ Len(pairs) = Len(inserted)
        /\ {pairs[i][2] : i \in 1..Len(pairs)} = 0..(Len(inserted) - 1)
        /\ \A i \in 1..Len(pairs) :
               /\ pairs[i][2] < Len(inserted)
               /\ pairs[i][1] = inserted[pairs[i][2] + 1]
        /\ \A i \in 1..(Len(pairs) - 1) : pairs[i][1] <= pairs[i + 1][1]

\* in a tree of three levels a leaf made by a split lies inside the chain: it
\* holds an entry inserted out of order and is followed by an older leaf
C22_Witness ==
    /\ ~time_index.nodes[time_index.root].is_leaf
    /\ ~time_index.nodes[time_index.nodes[time_index.root].children[1]].is_leaf
    /\ \E n \in LiveNodes(time_index) :
           LET leaf == time_index.nodes[n]
           IN  /\ leaf.is_leaf
               /\ leaf.next # 0
               /\ leaf.next < n
               /\ \E i \in 1..Len(leaf.values) : leaf.values[i] >= LoadedEntries



\* the largest of three numbers
Max3(a, b, c) == IF a >= b /\ a >= c THEN a ELSE IF b >= c THEN b ELSE c

\* capacity raised by whole chunks, at least one, until required slots fit
ChunkedCapacity(capacity, required) ==
    LET step  == CHUNK_SIZE \div ELEMENT_SIZE
        short == required - capacity
        steps == IF short <= step THEN 1 ELSE (short + step - 1) \div step
    IN  capacity + steps * step

\* a step in which the Column grows: append or append_batch reserving slots
ColumnGrows == timestamps.mapped /\ timestamps'.mapped
               /\ timestamps'.capacity # timestamps.capacity

\* the slots the reservation made in this step requires in all
Required == timestamps.count + Len(appender'.vs)

\* C23 as stated: whenever a Column grows for a reservation that requires
\* `required` slots, the capacity after growth is
\* max(capacity + 4096/element_size, capacity*2, required) of the capacity
\* before growth, for append and for append_batch.
C23_GrowthIsMaxOfThree ==
    [][ColumnGrows =>
          timestamps'.capacity = Max3(timestamps.capacity + (CHUNK_SIZE \div ELEMENT_SIZE),
                                      timestamps.capacity * 2, Required)]_vars

\* C23, amended: whenever a Column grows, append raises the capacity by
\* 4096/element_size and append_batch raises it by as many steps of
\* 4096/element_size as it takes to hold the `required` slots; the capacity is
\* not doubled and not set to `required`.
C23_GrowthInChunks ==
    [][ColumnGrows =>
          timestamps'.capacity =
              IF Len(appender'.vs) = 1
              THEN timestamps.capacity + (CHUNK_SIZE \div ELEMENT_SIZE)
              ELSE ChunkedCapacity(timestamps.capacity, Required)]_vars

\* a full Column of one chunk has grown for a batch of BATCH_SIZE elements: by
\* two chunks, to more than the slots required and less than the capacity doubled
\* twice
C23_Witness ==
    /\ appender.pc = "copy"
    /\ appender.pos = CHUNK_SIZE \div ELEMENT_SIZE
    /\ Len(appender.vs) = BATCH_SIZE
    /\ timestamps.capacity = 3 * (CHUNK_SIZE \div ELEMENT_SIZE)
    /\ timestamps.capacity > appender.pos + BATCH_SIZE



\* C24: with no Writer failure, every call to count(), also one made while the
\* Writer commits a batch, loads three equal column counts and returns that
\* value without taking the ColumnDesync warning path.
C24_CountSeesEqualColumns ==
    /\ counter.pc = "compare" => (counter.ts = counter.pr /\ counter.pr = counter.vol)
    /\ ~counter.warned



\* a step that remaps a Column of the Series: its file and capacity change
Remapped(col) == col'.capacity # col.capacity \/ col'.file_size # col.file_size

\* C25: after construction a Column is remapped only while the Writer holds the
\* Series' exclusive lock; no Column's mapping or capacity changes while a
\* reader is inside query_range or query_last holding the shared lock.
C25_RemapOnlyUnderExclusiveLock ==
    [][(dpc = "alive" /\ dpc' = "alive"
        /\ (Remapped(timestamps) \/ Remapped(prices) \/ Remapped(volumes)))
       => (/\ query_mutex.writer
           /\ query_mutex.readers = {}
           /\ \A r \in Readers : rpc[r] # "reading")]_vars

\* the Writer, holding the exclusive lock, has grown the timestamps Column for
\* its batch and not yet the other two
C25_Witness ==
    /\ wpc = "append_prices"
    /\ query_mutex.writer
    /\ timestamps.capacity = 2 * (CHUNK_SIZE \div ELEMENT_SIZE)
    /\ prices.capacity = CHUNK_SIZE \div ELEMENT_SIZE



\* the threads that are growing the Column, a remap_mutex held
Growing == {t \in ColumnThreads : appenders[t].pc \in {"recheck", "grow"}}

\* C26: with several threads appending to one Column, in any mix of append and
\* append_batch, one thread at most grows the Column at a time, the threads
\* reserve distinct slots, every slot a thread copies into is below the capacity
\* at the time of the copy, and count <= capacity once the calls have returned.
C26_ConcurrentAppendsStayInside ==
    /\ Cardinality(Growing) <= 1
    /\ \A t \in ColumnThreads : \A u \in ColumnThreads :
           (t # u /\ appenders[t].pc = "copy" /\ appenders[u].pc = "copy") =>
               \/ appenders[t].pos + appenders[t].n <= appenders[u].pos
               \/ appenders[u].pos + appenders[u].n <= appenders[t].pos
    /\ \A t \in ColumnThreads :
           appenders[t].pc = "copy" =>
               appenders[t].pos + appenders[t].n <= timestamps.capacity
    /\ (\A t \in ColumnThreads : appenders[t].pc = "idle") =>
           timestamps.count <= timestamps.capacity



\* the caller sleeps on sync_cv with nothing pending, and no notification is on
\* its way: the flag is clear and the Writer is not about to notify
LeftBlocked(s) ==
    /\ spc[s] = "waiting"
    /\ pending_writes = 0
    /\ ~sync_requested
    /\ wpc # "check_pending"

\* C27: with two threads calling sync() at the same time, a caller that clears
\* sync_requested on its return never leaves the other caller blocked on the
\* sync condition with pending_writes already zero (so that each of them
\* returns once pending_writes is zero).
C27_NoCallerLeftBlocked == \A s \in SyncCallers : ~LeftBlocked(s)



\* ticks of the batch the Writer has taken and not yet acknowledged
InFlight ==
    IF wpc \in {"have_batch", "append_ts", "append_prices", "append_volumes", "flush",
                "index", "dec_pending"}
    THEN Len(batch) ELSE 0

\* C28: in every reachable state pending_writes is at least the number of ticks
\* in the write queue plus those of the batch taken and not yet acknowledged; the
\* Writer's decrement never takes it below zero, and it is zero only if the queue
\* is empty and no batch is in flight.
C28_PendingCoversQueueAndBatch ==
    /\ pending_writes >= Len(write_queue) + InFlight
    /\ pending_writes >= 0
    /\ pending_writes = 0 => (write_queue = <<>> /\ InFlight = 0)

\* the Writer is committing one tick while a second one waits in the queue
C28_Witness ==
    /\ wpc = "dec_pending"
    /\ InFlight = 1
    /\ Len(write_queue) = 1
    /\ pending_writes = 2



(***************************************************************************)
(* The Series in use and never destroyed, under the scheduling above.      *)
(***************************************************************************)
NextInUse ==
    \/ \E p \in Producers : append(p) \/ append_batch(p) \/ Push(p) \/ Notify(p)
    \/ Writer
    \/ \E s \in Syncers : \/ SyncBegin(s) \/ SyncLock(s) \/ SyncWaitPred(s)
                          \/ SyncBlock(s) \/ SyncSpurious(s) \/ SyncReturn(s)
    \/ \E r \in Readers : QueryRange(r) \/ QueryReturn(r)

FairSpecInUse == Init /\ [][NextInUse]_vars /\ Fairness

\* the ticks of the clients' id-th append, whatever timestamp they gave it
TicksOf(id) == {Tick(ts, id) : ts \in Keys}

====
